---- MODULE Spec2Model ----
(***************************************************************************)
(* The serverless Transform / Load / Query pipeline over sales orders:     *)
(* Transform.py dedups and enriches a raw CSV file, Load.py appends the    *)
(* transformed CSV to the SQLite table `orders` and uploads the database,  *)
(* Query.py downloads the database and answers a filtered, grouped         *)
(* aggregate query.                                                        *)
(*                                                                         *)
(* Text (a CSV cell, a filter value, SQL text) is a sequence of one-       *)
(* character strings.  A float is a fixed-point number: an integer count   *)
(* of 1/Scale units.                                                       *)
(***************************************************************************)
EXTENDS Integers, Sequences, FiniteSets, TLC

(***************************************************************************)
(* Bounds of the model.                                                    *)
(***************************************************************************)
\* the longest raw CSV file handed to Transform, in rows
MaxRows == 3
\* the most rows the orders table grows to
MaxTable == 2

(***************************************************************************)
(* Text and number conversions of Python: int(), float(), str().           *)
(***************************************************************************)
Digits == {"0", "1", "2", "3", "4", "5", "6", "7", "8", "9"}

DigitVal(c) ==
    CASE c = "0" -> 0 [] c = "1" -> 1 [] c = "2" -> 2 [] c = "3" -> 3
      [] c = "4" -> 4 [] c = "5" -> 5 [] c = "6" -> 6 [] c = "7" -> 7
      [] c = "8" -> 8 [] c = "9" -> 9

DigitChar(n) ==
    CASE n = 0 -> "0" [] n = 1 -> "1" [] n = 2 -> "2" [] n = 3 -> "3"
      [] n = 4 -> "4" [] n = 5 -> "5" [] n = 6 -> "6" [] n = 7 -> "7"
      [] n = 8 -> "8" [] n = 9 -> "9"

\* the fixed-point scale of a float: two decimal places
Scale == 10 * 10

Front(s) == SubSeq(s, 1, Len(s) - 1)

Last(s) == s[Len(s)]

IsDigits(s) == \A i \in 1..Len(s) : s[i] \in Digits

RECURSIVE DecVal(_)
\* the value of a run of decimal digits
DecVal(s) == IF s = <<>> THEN 0 ELSE DecVal(Front(s)) * 10 + DigitVal(Last(s))

RECURSIVE Strip(_)
\* str.strip() for the blank character
Strip(s) ==
    IF s = <<>> THEN s
    ELSE IF s[1] = " " THEN Strip(Tail(s))
    ELSE IF Last(s) = " " THEN Strip(Front(s))
    ELSE s

NotUnderscore(c) == c # "_"

\* digits with single underscores between them, as int() and float() accept
IsDigitGroup(s) ==
    /\ s # <<>>
    /\ \A i \in 1..Len(s) : s[i] \in Digits \cup {"_"}
    /\ s[1] # "_"
    /\ Last(s) # "_"
    /\ \A i \in 1..(Len(s) - 1) : ~(s[i] = "_" /\ s[i + 1] = "_")

\* whether the stripped text starts with a sign
HasSign(t) == t # <<>> /\ t[1] \in {"+", "-"}

\* the stripped text without its sign
Unsigned(t) == IF HasSign(t) THEN Tail(t) ELSE t

\* the magnitude under the sign the stripped text starts with
WithSign(t, mag) == IF t # <<>> /\ t[1] = "-" THEN 0 - mag ELSE mag

\* int() of a text without blanks around it
PyIntStripped(t) ==
    IF IsDigitGroup(Unsigned(t))
    THEN [ok |-> TRUE,
          val |-> WithSign(t, DecVal(SelectSeq(Unsigned(t), NotUnderscore)))]
    ELSE [ok |-> FALSE, val |-> 0]

\* int(text): blanks stripped, an optional sign, decimal digits; anything else
\* raises ValueError (ok = FALSE)
PyInt(text) == PyIntStripped(Strip(text))

\* the index of the first "." of s, or 0
DotAt(s) ==
    IF \E i \in 1..Len(s) : s[i] = "."
    THEN CHOOSE i \in 1..Len(s) : s[i] = "." /\ \A j \in 1..(i - 1) : s[j] # "."
    ELSE 0

\* the text before the first "."
IntPart(body) ==
    IF DotAt(body) = 0 THEN body ELSE SubSeq(body, 1, DotAt(body) - 1)

\* the text after the first "."
FracPart(body) ==
    IF DotAt(body) = 0 THEN <<>> ELSE SubSeq(body, DotAt(body) + 1, Len(body))

\* the first two decimal places of a run of fraction digits, in 1/Scale units
FracDigits(d) ==
    (IF Len(d) >= 1 THEN DigitVal(d[1]) * 10 ELSE 0)
    + (IF Len(d) >= 2 THEN DigitVal(d[2]) ELSE 0)

\* float() of a stripped text with integer part ip and fraction part fp
FloatOfParts(t, ip, fp) ==
    IF /\ ip # <<>> \/ fp # <<>>
       /\ ip = <<>> \/ IsDigitGroup(ip)
       /\ fp = <<>> \/ IsDigitGroup(fp)
    THEN [ok |-> TRUE,
          val |-> WithSign(t, DecVal(SelectSeq(ip, NotUnderscore)) * Scale
                              + FracDigits(SelectSeq(fp, NotUnderscore)))]
    ELSE [ok |-> FALSE, val |-> 0]

\* float() of a text without blanks around it
PyFloatStripped(t) == FloatOfParts(t, IntPart(Unsigned(t)), FracPart(Unsigned(t)))

\* float(text): blanks stripped, an optional sign, digits with an optional
\* fraction; the value in 1/Scale units.  Exponent, inf and nan forms use
\* characters no cell of the model holds.
PyFloat(text) == PyFloatStripped(Strip(text))

RECURSIVE NatToText(_)
NatToText(n) ==
    IF n < 10 THEN <<DigitChar(n)>>
    ELSE Append(NatToText(n \div 10), DigitChar(n % 10))

\* str(n) of an int
IntToText(n) == IF n < 0 THEN <<"-">> \o NatToText(0 - n) ELSE NatToText(n)

\* the text of a non-negative fixed-point number, two decimal places
FixedToText(mag) ==
    NatToText(mag \div Scale)
        \o <<".", DigitChar((mag % Scale) \div 10), DigitChar(mag % 10)>>

\* str(x) of a float, to the model's two decimal places
FloatToText(x) ==
    IF x < 0 THEN <<"-">> \o FixedToText(0 - x) ELSE FixedToText(x)

(***************************************************************************)
(* datetime.strptime(text, '%m/%d/%Y') and the day difference.             *)
(***************************************************************************)
\* the indices of the "/" of s
Slashes(s) == {i \in 1..Len(s) : s[i] = "/"}

\* the index of the k-th "/" of s, k at most their number
SlashAt(s, k) ==
    CHOOSE i \in Slashes(s) : Cardinality({j \in Slashes(s) : j < i}) = k - 1

IsLeap(y) == (y % 4 = 0 /\ y % 100 # 0) \/ y % 400 = 0

DaysInMonth(y, m) ==
    IF m = 2 THEN (IF IsLeap(y) THEN 29 ELSE 28)
    ELSE IF m \in {4, 6, 9, 11} THEN 30 ELSE 31

\* the day number of the year of the date, the year starting in March
DayOfYear(mp, d) == (153 * mp + 2) \div 5 + d - 1

\* the day number of the date within its 400-year era
DayOfEra(yoe, doy) == yoe * 365 + yoe \div 4 - yoe \div 100 + doy

\* the day number of a calendar date (days since a fixed epoch), yy the year
\* that starts in March
DayNumberOf(yy, m, d) ==
    (yy \div 400) * 146097
    + DayOfEra(yy % 400, DayOfYear(IF m > 2 THEN m - 3 ELSE m + 9, d))

DayNumber(y, m, d) == DayNumberOf(IF m <= 2 THEN y - 1 ELSE y, m, d)

\* the date of the three texts a month/day/year text splits into
DateOfParts(mt, dt, yt) ==
    IF /\ Len(mt) \in 1..2 /\ IsDigits(mt)
       /\ Len(dt) \in 1..2 /\ IsDigits(dt)
       /\ Len(yt) = 4 /\ IsDigits(yt)
       /\ DecVal(mt) \in 1..12
       /\ DecVal(yt) >= 1
       /\ DecVal(dt) >= 1
       /\ DecVal(dt) <= DaysInMonth(DecVal(yt), DecVal(mt))
    THEN [ok |-> TRUE, val |-> DayNumber(DecVal(yt), DecVal(mt), DecVal(dt))]
    ELSE [ok |-> FALSE, val |-> 0]

\* the text split at its "/" at s1 and its "/" at s2
DateSplitAt(text, s1, s2) ==
    DateOfParts(SubSeq(text, 1, s1 - 1), SubSeq(text, s1 + 1, s2 - 1),
                SubSeq(text, s2 + 1, Len(text)))

\* strptime(text, '%m/%d/%Y'): month and day of one or two digits, a year of
\* four, a day the month has; anything else raises ValueError (ok = FALSE)
ParseDate(text) ==
    IF Cardinality(Slashes(text)) = 2
    THEN DateSplitAt(text, SlashAt(text, 1), SlashAt(text, 2))
    ELSE [ok |-> FALSE, val |-> 0]

(***************************************************************************)
(* Cell values of the model's CSV files.                                   *)
(***************************************************************************)
TxtAsia == <<"A">>
TxtEurope == <<"E">>
TxtCountry == <<"C">>
TxtItemType == <<"F">>
TxtOnline == <<"O">>
TxtJan1 == <<"1", "/", "1", "/", "2", "0", "2", "0">>
TxtJan2 == <<"1", "/", "2", "/", "2", "0", "2", "0">>
TxtJan5 == <<"1", "/", "5", "/", "2", "0", "2", "0">>
\* a date not in month/day/year form
TxtBadDate == <<"2", "0", "2", "0">>
TxtHigh == <<"H", "i", "g", "h">>
TxtCritical == <<"C", "r", "i", "t", "i", "c", "a", "l">>
TxtLow == <<"L", "o", "w">>
TxtMedium == <<"M", "e", "d", "i", "u", "m">>
TxtUnknown == <<"U", "n", "k", "n", "o", "w", "n">>

\* a raw row with the given Region, Order ID, Order Date and Units Sold cells;
\* the other columns hold one value each
RawRow(region, oid, odate, units) ==
    [Region |-> region, Country |-> TxtCountry, ItemType |-> TxtItemType,
     SalesChannel |-> TxtOnline, OrderPriority |-> <<"H">>,
     OrderDate |-> odate, OrderID |-> oid, ShipDate |-> TxtJan5,
     UnitsSold |-> units, UnitPrice |-> <<"2">>, UnitCost |-> <<"1">>,
     TotalRevenue |-> <<"4">>, TotalCost |-> <<"2">>, TotalProfit |-> <<"2">>]

\* the rows of the raw files handed to Transform: "1" and "01" are different
\* cell values of the same integer
RawRows ==
    {RawRow(TxtAsia, oid, odate, <<"3">>) :
        oid \in {<<"1">>, <<"0", "1">>, <<"2">>},
        odate \in {TxtJan1, TxtJan2, TxtBadDate}}

SeqsUpTo(S, n) == UNION {[1..k -> S] : k \in 0..n}

RawFiles == SeqsUpTo(RawRows, MaxRows)

\* a filter value that closes the literal it is put in: A' OR '1'='1
TxtInjection == <<"A", "'", " ", "O", "R", " ", "'", "1", "'", "=", "'", "1">>
\* a filter value with one quote character: A'
TxtQuote == <<"A", "'">>
\* the value 10% of the filter key Discount
TxtDiscount == <<"1", "0", "%">>

NoObject == [exists |-> FALSE, rows |-> <<>>]

Object(rows) == [exists |-> TRUE, rows |-> rows]

(***************************************************************************)
(* Transform.py                                                            *)
(***************************************************************************)
\* order_priority_mapping.get(code, 'Unknown')
order_priority_mapping(code) ==
    CASE code = <<"H">> -> TxtHigh
      [] code = <<"C">> -> TxtCritical
      [] code = <<"L">> -> TxtLow
      [] code = <<"M">> -> TxtMedium
      [] OTHER -> TxtUnknown

\* the conversions of one row that can raise: both dates, then both floats
RowParses(row) ==
    /\ ParseDate(row.OrderDate).ok
    /\ ParseDate(row.ShipDate).ok
    /\ PyFloat(row.TotalProfit).ok
    /\ PyFloat(row.TotalRevenue).ok

\* row['Gross Margin'] as the CSV writer renders it: the quotient, or the
\* int 0 when the revenue is zero
GrossMarginText(total_profit, total_revenue) ==
    IF total_revenue # 0
    THEN FloatToText((total_profit * Scale) \div total_revenue)
    ELSE <<"0">>

\* the row Transform appends for a row that parses: the two derived columns
\* added, the priority code replaced, as the CSV writer renders them
TransformRow(row) ==
    [Region |-> row.Region, Country |-> row.Country,
     ItemType |-> row.ItemType, SalesChannel |-> row.SalesChannel,
     OrderPriority |-> order_priority_mapping(row.OrderPriority),
     OrderDate |-> row.OrderDate, OrderID |-> row.OrderID,
     ShipDate |-> row.ShipDate, UnitsSold |-> row.UnitsSold,
     UnitPrice |-> row.UnitPrice, UnitCost |-> row.UnitCost,
     TotalRevenue |-> row.TotalRevenue, TotalCost |-> row.TotalCost,
     TotalProfit |-> row.TotalProfit,
     OrderProcessingTime |->
         IntToText(ParseDate(row.ShipDate).val - ParseDate(row.OrderDate).val),
     GrossMargin |-> GrossMarginText(PyFloat(row.TotalProfit).val,
                                     PyFloat(row.TotalRevenue).val)]

RECURSIVE transformLoopLastOnly(_, _, _)
\* the loop remembering only the Order ID of the row before
transformLoopLastOnly(rows, seen_order_ids, transformed_rows) ==
    IF rows = <<>> THEN [ok |-> TRUE, rows |-> transformed_rows]
    ELSE IF Head(rows).OrderID \in seen_order_ids
    THEN transformLoopLastOnly(Tail(rows), seen_order_ids, transformed_rows)
    ELSE IF ~RowParses(Head(rows))
    THEN [ok |-> FALSE, rows |-> <<>>]
    ELSE transformLoopLastOnly(Tail(rows), {Head(rows).OrderID},
                               Append(transformed_rows, TransformRow(Head(rows))))

RECURSIVE transformLoop(_, _, _)
\* the row loop of transform: a row whose Order ID cell is in seen_order_ids is
\* skipped before anything of it is parsed; a row that does not parse raises
transformLoop(rows, seen_order_ids, transformed_rows) ==
    IF rows = <<>> THEN [ok |-> TRUE, rows |-> transformed_rows]
    ELSE IF Head(rows).OrderID \in seen_order_ids
    THEN transformLoop(Tail(rows), seen_order_ids, transformed_rows)
    ELSE IF ~RowParses(Head(rows))
    THEN [ok |-> FALSE, rows |-> <<>>]
    ELSE transformLoop(Tail(rows), seen_order_ids \cup {Head(rows).OrderID},
                       Append(transformed_rows, TransformRow(Head(rows))))

\* the loop without the duplicate test
transformKeepAll(rows) ==
    IF \A i \in 1..Len(rows) : RowParses(rows[i])
    THEN [ok |-> TRUE, rows |-> [i \in 1..Len(rows) |-> TransformRow(rows[i])]]
    ELSE [ok |-> FALSE, rows |-> <<>>]

\* transform(file_path) on a file of these rows
transform(rows) == transformLoop(rows, {}, <<>>)

\* what a handler hands back: a response it returned, or an exception it let
\* escape to the caller
Returned(fn, statusCode, error) ==
    [fn |-> fn, kind |-> "returned", statusCode |-> statusCode, error |-> error]

Raised(fn, exception) ==
    [fn |-> fn, kind |-> "raised", statusCode |-> 0, error |-> exception]

TransformBodies == {"absent", "dict"}

S3Faults == {"none", "download", "upload"}

\* what the Transform handler does: the object it puts, if any, and what it
\* hands back
TransformFails(exception) ==
    [put |-> FALSE, rows |-> <<>>, outcome |-> Raised("Transform", exception)]

\* the handler from the download on, t the result of transform
TransformFrom(fault, t) ==
    IF fault = "download" THEN TransformFails("ClientError")
    ELSE IF ~t.ok THEN TransformFails("ValueError")
    ELSE IF fault = "upload" THEN TransformFails("ClientError")
    ELSE [put |-> TRUE, rows |-> t.rows,
          outcome |-> Returned("Transform", 200, "")]

\* lambda_handler of Transform.py on an event with the given body, the raw
\* object and the S3 call that fails, if any.  Nothing in it catches an
\* exception.
TransformHandler(body, fault, raw) ==
    IF body = "absent" THEN TransformFails("KeyError")
    ELSE TransformFrom(fault, transform(raw))

(***************************************************************************)
(* Load.py                                                                 *)
(***************************************************************************)
\* the conversions of one CSV row in data_to_insert
RowCoerces(row) ==
    /\ PyInt(row.OrderID).ok
    /\ PyInt(row.UnitsSold).ok
    /\ PyFloat(row.UnitPrice).ok
    /\ PyFloat(row.UnitCost).ok
    /\ PyFloat(row.TotalRevenue).ok
    /\ PyFloat(row.TotalCost).ok
    /\ PyFloat(row.TotalProfit).ok
    /\ PyInt(row.OrderProcessingTime).ok
    /\ PyFloat(row.GrossMargin).ok

\* the tuple data_to_insert holds for one CSV row, as the row of `orders` it
\* becomes under the given id
StoredRow(row, id) ==
    [id |-> id, Region |-> row.Region, Country |-> row.Country,
     ItemType |-> row.ItemType, SalesChannel |-> row.SalesChannel,
     OrderPriority |-> row.OrderPriority, OrderDate |-> row.OrderDate,
     OrderID |-> PyInt(row.OrderID).val, ShipDate |-> row.ShipDate,
     UnitsSold |-> PyInt(row.UnitsSold).val,
     UnitPrice |-> PyFloat(row.UnitPrice).val,
     UnitCost |-> PyFloat(row.UnitCost).val,
     TotalRevenue |-> PyFloat(row.TotalRevenue).val,
     TotalCost |-> PyFloat(row.TotalCost).val,
     TotalProfit |-> PyFloat(row.TotalProfit).val,
     OrderProcessingTime |-> PyInt(row.OrderProcessingTime).val,
     GrossMargin |-> PyFloat(row.GrossMargin).val]

\* executemany on a table of `size` rows: the rows the open transaction holds
\* when the statement ends; with failAt = k > 0 the k-th insert raises, the
\* k - 1 rows before it inserted
executemany(size, rows, failAt) ==
    [k \in 1..(IF failAt = 0 THEN Len(rows) ELSE failAt - 1) |->
        StoredRow(rows[k], size + k)]

\* a commit that replaces the table by the batch
TableAfterReplace(committed, pending, commits) ==
    IF commits THEN pending ELSE committed

\* the table after the handler has ended: conn.commit() appends the open
\* transaction; a handler that raised before it leaves the connection
\* unreferenced, and closing it rolls the transaction back
TableAfter(committed, pending, commits) ==
    IF commits THEN committed \o pending ELSE committed

LoadFaults == {"none", "download", "insert", "upload"}

\* what the Load handler does: the table it leaves, whether it put the
\* database object, and the response it returns
LoadResult(tbl, upload, statusCode, error) ==
    [table |-> tbl, upload |-> upload,
     outcome |-> Returned("Load", statusCode, error)]

\* the handler from the insert on: pending holds what executemany inserted
LoadInsert(fault, committed, pending) ==
    IF fault = "insert"
    THEN LoadResult(TableAfter(committed, pending, FALSE), FALSE, 500,
                    "OperationalError")
    ELSE IF fault = "upload"
    THEN LoadResult(TableAfter(committed, pending, TRUE), FALSE, 500,
                    "ClientError")
    ELSE LoadResult(TableAfter(committed, pending, TRUE), TRUE, 200, "")

\* lambda_handler of Load.py: the event with or without its two parameters,
\* the CSV object under its key, the local table, and the call that fails, if
\* any (failAt: the insert that fails).  Every exception is caught and
\* answered with status 500.
LoadHandler(hasParams, csv, fault, failAt, committed) ==
    IF ~hasParams THEN LoadResult(committed, FALSE, 500, "ValueError")
    ELSE IF fault = "download" \/ ~csv.exists
    THEN LoadResult(committed, FALSE, 500, "ClientError")
    ELSE IF \E i \in 1..Len(csv.rows) : ~RowCoerces(csv.rows[i])
    THEN LoadResult(TableAfter(committed, <<>>, FALSE), FALSE, 500, "ValueError")
    ELSE LoadInsert(fault, committed,
                    executemany(Len(committed), csv.rows,
                                IF fault = "insert" THEN failAt ELSE 0))

(***************************************************************************)
(* The SQL text Query.py builds and SQLite's reading of it.                *)
(***************************************************************************)
TextColumns == {"Region", "Country", "ItemType", "SalesChannel", "OrderPriority", "OrderDate", "ShipDate"}

IntegerColumns == {"id", "OrderID", "UnitsSold", "OrderProcessingTime"}

RealColumns == {"UnitPrice", "UnitCost", "TotalRevenue", "TotalCost", "TotalProfit", "GrossMargin"}

\* the columns of `orders` (Load.py's CREATE TABLE)
Columns == TextColumns \cup IntegerColumns \cup RealColumns

\* the spelling of a column name in SQL text
ColumnWord(name) ==
    CASE name = "Region" -> <<"R", "e", "g", "i", "o", "n">>
      [] name = "Country" -> <<"C", "o", "u", "n", "t", "r", "y">>
      [] name = "ItemType" -> <<"I", "t", "e", "m", "T", "y", "p", "e">>
      [] name = "SalesChannel" -> <<"S", "a", "l", "e", "s", "C", "h", "a", "n", "n", "e", "l">>
      [] name = "OrderPriority" -> <<"O", "r", "d", "e", "r", "P", "r", "i", "o", "r", "i", "t", "y">>
      [] name = "OrderDate" -> <<"O", "r", "d", "e", "r", "D", "a", "t", "e">>
      [] name = "ShipDate" -> <<"S", "h", "i", "p", "D", "a", "t", "e">>
      [] name = "id" -> <<"i", "d">>
      [] name = "OrderID" -> <<"O", "r", "d", "e", "r", "I", "D">>
      [] name = "UnitsSold" -> <<"U", "n", "i", "t", "s", "S", "o", "l", "d">>
      [] name = "OrderProcessingTime" -> <<"O", "r", "d", "e", "r", "P", "r", "o", "c", "e", "s", "s", "i", "n", "g", "T", "i", "m", "e">>
      [] name = "UnitPrice" -> <<"U", "n", "i", "t", "P", "r", "i", "c", "e">>
      [] name = "UnitCost" -> <<"U", "n", "i", "t", "C", "o", "s", "t">>
      [] name = "TotalRevenue" -> <<"T", "o", "t", "a", "l", "R", "e", "v", "e", "n", "u", "e">>
      [] name = "TotalCost" -> <<"T", "o", "t", "a", "l", "C", "o", "s", "t">>
      [] name = "TotalProfit" -> <<"T", "o", "t", "a", "l", "P", "r", "o", "f", "i", "t">>
      [] name = "GrossMargin" -> <<"G", "r", "o", "s", "s", "M", "a", "r", "g", "i", "n">>

\* the column a word of SQL text names; only asked of a word that names one
ColumnNamed(word) == CHOOSE name \in Columns : ColumnWord(name) = word

IsColumnWord(word) == \E name \in Columns : ColumnWord(name) = word

Letters ==
    {"A", "B", "C", "D", "E", "F", "G", "H", "I", "J", "K", "L", "M", "N", "O", "P", "Q", "R", "S", "T", "U", "V", "W", "X", "Y", "Z",
     "a", "b", "c", "d", "e", "f", "g", "h", "i", "j", "k", "l", "m", "n", "o", "p", "q", "r", "s", "t", "u", "v", "w", "x", "y", "z"}

\* the characters of a number, a name or a keyword
WordChars == Letters \cup Digits \cup {"_"}

AndWords == {<<a, n, d>> : a \in {"A", "a"}, n \in {"N", "n"}, d \in {"D", "d"}}

OrWords == {<<o, r>> : o \in {"O", "o"}, r \in {"R", "r"}}

RECURSIVE LiteralEnd(_, _)
\* the index of the quote that closes the string literal whose content starts
\* at j ('' inside a literal is a quote character), or 0 when none closes it
LiteralEnd(text, j) ==
    IF j > Len(text) THEN 0
    ELSE IF text[j] # "'" THEN LiteralEnd(text, j + 1)
    ELSE IF j < Len(text) /\ text[j + 1] = "'" THEN LiteralEnd(text, j + 2)
    ELSE j

RECURSIVE Unescape(_)
\* the value of a literal's content: each '' one quote character
Unescape(s) ==
    IF s = <<>> THEN <<>>
    ELSE IF s[1] = "'" THEN <<"'">> \o Unescape(SubSeq(s, 3, Len(s)))
    ELSE <<s[1]>> \o Unescape(Tail(s))

RECURSIVE WordEnd(_, _)
\* the index of the last character of the word that holds text[j]
WordEnd(text, j) ==
    IF j < Len(text) /\ text[j + 1] \in WordChars THEN WordEnd(text, j + 1)
    ELSE j

StrToken(v) == [t |-> "str", v |-> v]

WordToken(v) == [t |-> "word", v |-> v]

EqToken == [t |-> "op", v |-> <<"=">>]

LexError == [ok |-> FALSE, toks |-> <<>>]

RECURSIVE Lex(_, _, _)
\* the tokens of an SQL expression from its i-th character on: string
\* literals, words and the = (or ==) operator, blanks skipped.  An unclosed
\* literal is an error; so is any other character (no filter value of the
\* model puts one outside a literal).
Lex(text, i, toks) ==
    IF i > Len(text) THEN [ok |-> TRUE, toks |-> toks]
    ELSE IF text[i] = " " THEN Lex(text, i + 1, toks)
    ELSE IF text[i] = "'"
    THEN IF LiteralEnd(text, i + 1) = 0 THEN LexError
         ELSE Lex(text, LiteralEnd(text, i + 1) + 1,
                  Append(toks, StrToken(Unescape(
                      SubSeq(text, i + 1, LiteralEnd(text, i + 1) - 1)))))
    ELSE IF text[i] = "="
    THEN Lex(text, IF i < Len(text) /\ text[i + 1] = "=" THEN i + 2 ELSE i + 1,
             Append(toks, EqToken))
    ELSE IF text[i] \in WordChars
    THEN Lex(text, WordEnd(text, i) + 1,
             Append(toks, WordToken(SubSeq(text, i, WordEnd(text, i)))))
    ELSE LexError

IsWordIn(tok, words) == tok.t = "word" /\ tok.v \in words

RECURSIVE SplitAt(_, _, _, _)
\* the runs of tokens between the keywords `words`
SplitAt(toks, words, done, cur) ==
    IF toks = <<>> THEN Append(done, cur)
    ELSE IF IsWordIn(Head(toks), words)
    THEN SplitAt(Tail(toks), words, Append(done, cur), <<>>)
    ELSE SplitAt(Tail(toks), words, done, Append(cur, Head(toks)))

\* OR binds loosest, then AND, then =
Disjuncts(toks) == SplitAt(toks, OrWords, <<>>, <<>>)

Conjuncts(toks) == SplitAt(toks, AndWords, <<>>, <<>>)

IsNumberWord(tok) == tok.t = "word" /\ IsDigits(tok.v)

\* a literal, a number or the name of a column
IsOperand(tok) ==
    tok.t = "str" \/ IsNumberWord(tok) \/ (tok.t = "word" /\ IsColumnWord(tok.v))

\* operand = operand = ... : operands at the odd places, = at the even ones
IsChain(toks) ==
    /\ Len(toks) % 2 = 1
    /\ \A i \in 1..Len(toks) :
        IF i % 2 = 1 THEN IsOperand(toks[i]) ELSE toks[i] = EqToken

\* whether SQLite prepares a statement with these tokens as its WHERE
\* expression: a syntax error or an unknown column raises OperationalError
Parses(toks) ==
    \A d \in 1..Len(Disjuncts(toks)) :
        \A c \in 1..Len(Conjuncts(Disjuncts(toks)[d])) :
            IsChain(Conjuncts(Disjuncts(toks)[d])[c])

\* a value of an SQL expression: a text or a number (in 1/Scale units), with
\* the affinity of the column it was read from
SqlText(v, aff) == [kind |-> "text", v |-> v, aff |-> aff]

SqlNum(v, aff) == [kind |-> "num", v |-> v, aff |-> aff]

ColumnValue(name, row) ==
    IF name \in TextColumns THEN SqlText(row[name], "TEXT")
    ELSE IF name \in IntegerColumns THEN SqlNum(row[name] * Scale, "NUMERIC")
    ELSE SqlNum(row[name], "NUMERIC")

OperandValue(tok, row) ==
    IF tok.t = "str" THEN SqlText(tok.v, "NONE")
    ELSE IF IsNumberWord(tok) THEN SqlNum(DecVal(tok.v) * Scale, "NONE")
    ELSE ColumnValue(ColumnNamed(tok.v), row)

\* the text SQLite gives a number under TEXT affinity
NumToText(x) == IF x % Scale = 0 THEN IntToText(x \div Scale) ELSE FloatToText(x)

\* a text against a number: the side that is a column converts the other
TextEqualsNum(txt, num) ==
    IF num.aff = "NUMERIC" THEN PyFloat(txt.v).ok /\ PyFloat(txt.v).val = num.v
    ELSE IF txt.aff = "TEXT" THEN txt.v = NumToText(num.v)
    ELSE FALSE

SqlEqual(a, b) ==
    IF a.kind = b.kind THEN a.v = b.v
    ELSE IF a.kind = "text" THEN TextEqualsNum(a, b)
    ELSE TextEqualsNum(b, a)

RECURSIVE ChainValue(_, _)
\* the value of operand = operand = ..., read from the left
ChainValue(toks, row) ==
    IF Len(toks) = 1 THEN OperandValue(toks[1], row)
    ELSE SqlNum(IF SqlEqual(ChainValue(SubSeq(toks, 1, Len(toks) - 2), row),
                            OperandValue(toks[Len(toks)], row))
                THEN Scale ELSE 0, "NONE")

RECURSIVE DigitRunEnd(_, _)
\* the index of the last digit of the run of digits that starts at i (i - 1
\* when text[i] is no digit)
DigitRunEnd(text, i) ==
    IF i <= Len(text) /\ text[i] \in Digits THEN DigitRunEnd(text, i + 1)
    ELSE i - 1

\* where the number a text starts with ends: digits, then a fraction if any
NumericPrefixEnd(text, intEnd) ==
    IF intEnd < Len(text) /\ text[intEnd + 1] = "."
    THEN DigitRunEnd(text, intEnd + 2)
    ELSE intEnd

\* the number a text is cast to: the number it starts with, else 0
NumericPrefix(text) ==
    WithSign(text, PyFloat(SubSeq(Unsigned(text), 1,
        NumericPrefixEnd(Unsigned(text), DigitRunEnd(Unsigned(text), 1)))).val)

\* whether WHERE keeps a row for this value
IsTrue(val) ==
    IF val.kind = "num" THEN val.v # 0 ELSE NumericPrefix(Strip(val.v)) # 0

\* whether a row satisfies the WHERE expression of these tokens
RowSatisfies(toks, row) ==
    \E d \in 1..Len(Disjuncts(toks)) :
        \A c \in 1..Len(Conjuncts(Disjuncts(toks)[d])) :
            IsTrue(ChainValue(Conjuncts(Disjuncts(toks)[d])[c], row))

(***************************************************************************)
(* Query.py                                                                *)
(***************************************************************************)
\* the keys of Filters the handler reads, each with the column it filters
FilterKeys ==
    <<[key |-> "Region", column |-> "Region"],
      [key |-> "Item Type", column |-> "ItemType"],
      [key |-> "Sales Channel", column |-> "SalesChannel"],
      [key |-> "Order Priority", column |-> "OrderPriority"],
      [key |-> "Country", column |-> "Country"]>>

\* filters.get(key): the empty text stands for None and for ''
Get(filters, key) == IF key \in DOMAIN filters THEN filters[key] ELSE <<>>

\* f"Column = '{value}'"
Condition(column, value) ==
    ColumnWord(column) \o <<" ", "=", " ", "'">> \o value \o <<"'">>

RECURSIVE query_filters(_, _)
\* the conditions of the keys from the i-th on whose value is truthy
query_filters(filters, i) ==
    IF i > Len(FilterKeys) THEN <<>>
    ELSE IF Get(filters, FilterKeys[i].key) # <<>>
    THEN <<Condition(FilterKeys[i].column, Get(filters, FilterKeys[i].key))>>
         \o query_filters(filters, i + 1)
    ELSE query_filters(filters, i + 1)

RECURSIVE JoinAnd(_)
\* " AND ".join(conditions)
JoinAnd(conditions) ==
    IF Len(conditions) = 1 THEN conditions[1]
    ELSE conditions[1] \o <<" ", "A", "N", "D", " ">> \o JoinAnd(Tail(conditions))

\* the expression after WHERE, or no WHERE clause
where_clause(filters) ==
    IF query_filters(filters, 1) = <<>> THEN [present |-> FALSE, text |-> <<>>]
    ELSE [present |-> TRUE, text |-> JoinAnd(query_filters(filters, 1))]

\* the tokens of the WHERE expression
WhereTokens(where) == Lex(where.text, 1, <<>>)

\* whether SQLite prepares the statements with this WHERE clause
WherePrepares(where, lexed) ==
    ~where.present \/ (lexed.ok /\ Parses(lexed.toks))

\* the rows SELECT ... FROM orders [WHERE ...] reads
Selected(rows, where, toks) ==
    IF where.present
    THEN SelectSeq(rows, LAMBDA row : RowSatisfies(toks, row))
    ELSE rows

\* the same test bound as a parameter: the column equal to the value as text
MatchesLiterally(filters, row) ==
    \A i \in 1..Len(FilterKeys) :
        Get(filters, FilterKeys[i].key) # <<>>
            => row[FilterKeys[i].column] = Get(filters, FilterKeys[i].key)

RECURSIVE SumOf(_, _)
SumOf(rows, name) ==
    IF rows = <<>> THEN 0 ELSE rows[1][name] + SumOf(Tail(rows), name)

ValuesOf(rows, name) == {rows[i][name] : i \in 1..Len(rows)}

MaxOf(S) == CHOOSE x \in S : \A y \in S : y <= x

MinOf(S) == CHOOSE x \in S : \A y \in S : x <= y

\* a value of a result row that may be NULL: <<>> or <<value>>
Null == <<>>

\* the row the aggregation SELECT computes over a set of rows: the averages
\* and sums in 1/Scale units, everything but the count NULL over no rows
AggregateRow(rows) ==
    IF rows = <<>>
    THEN [AvgOrderProcessingTime |-> Null, AvgGrossMargin |-> Null,
          AvgUnitsSold |-> Null, MaxUnitsSold |-> Null, MinUnitsSold |-> Null,
          TotalUnitsSold |-> Null, TotalRevenue |-> Null, TotalProfit |-> Null,
          NumberOfOrders |-> 0]
    ELSE [AvgOrderProcessingTime |->
              <<(SumOf(rows, "OrderProcessingTime") * Scale) \div Len(rows)>>,
          AvgGrossMargin |-> <<SumOf(rows, "GrossMargin") \div Len(rows)>>,
          AvgUnitsSold |-> <<(SumOf(rows, "UnitsSold") * Scale) \div Len(rows)>>,
          MaxUnitsSold |-> <<MaxOf(ValuesOf(rows, "UnitsSold"))>>,
          MinUnitsSold |-> <<MinOf(ValuesOf(rows, "UnitsSold"))>>,
          TotalUnitsSold |-> <<SumOf(rows, "UnitsSold")>>,
          TotalRevenue |-> <<SumOf(rows, "TotalRevenue")>>,
          TotalProfit |-> <<SumOf(rows, "TotalProfit")>>,
          NumberOfOrders |-> Cardinality(ValuesOf(rows, "OrderID"))]

\* the value of the GROUP BY columns in a row
GroupKey(row, group_by) ==
    [i \in 1..Len(group_by) |-> row[ColumnNamed(group_by[i])]]

GroupKeys(rows, group_by) == {GroupKey(rows[i], group_by) : i \in 1..Len(rows)}

Group(rows, group_by, key) ==
    SelectSeq(rows, LAMBDA row : GroupKey(row, group_by) = key)

\* the rows of the aggregation SELECT: one over all selected rows without
\* GROUP BY, else one for each group there is
agg_result(rows, group_by) ==
    IF group_by = <<>> THEN {AggregateRow(rows)}
    ELSE {AggregateRow(Group(rows, group_by, key)) : key \in GroupKeys(rows, group_by)}

EmptyDict == [empty |-> TRUE]

QueryFails(error) == Returned("Query", 500, error)

\* the response of a query that ran: the status and the aggregations
QueryAnswer(aggregations) ==
    [fn |-> "Query", kind |-> "returned", statusCode |-> 200, error |-> "",
     aggregations |-> aggregations]

\* the responses the handler may build from the rows of the aggregation
\* SELECT: aggregations hold agg_result[0], whichever of the rows SQLite
\* returns first (it leaves the order of the groups open), or stay empty when
\* there is no row
QueryAnswers(result) ==
    IF result = {} THEN {QueryAnswer(EmptyDict)}
    ELSE {QueryAnswer(first) : first \in result}

\* the handler from the two SELECTs on
QueryRuns(db, where, lexed, group_by) ==
    IF ~WherePrepares(where, lexed) THEN {QueryFails("OperationalError")}
    ELSE IF \E i \in 1..Len(group_by) : ~IsColumnWord(group_by[i])
    THEN {QueryFails("OperationalError")}
    ELSE QueryAnswers(agg_result(Selected(db.rows, where, lexed.toks), group_by))

\* the handler from the building of the two statements on
QueryBuilds(db, where, group_by) ==
    QueryRuns(db, where, WhereTokens(where), group_by)

\* lambda_handler of Query.py: the event with or without its two parameters,
\* the database object under its key, the S3 call that fails, if any, Filters
\* and Group By: the responses it may return.  Every exception is caught and
\* answered with status 500.
QueryHandler(hasParams, db, fault, filters, group_by) ==
    IF ~hasParams THEN {QueryFails("ValueError")}
    ELSE IF fault = "download" \/ ~db.exists THEN {QueryFails("ClientError")}
    ELSE QueryBuilds(db, where_clause(filters), group_by)

(***************************************************************************)
(* The state: the objects in S3, the database file Load keeps in /tmp, and *)
(* the last invocation with what it handed back.                           *)
(***************************************************************************)
VARIABLES
    s3raw,    \* the rows of the raw CSV object Transform is pointed at
    s3csv,    \* the transformed CSV object Transform put
    table,    \* the rows of `orders` in Load's local database file
    s3db,     \* the database object Load put under databases/
    request,  \* the last invocation: its function, event and environment
    outcome   \* what the last invocation handed back

vars == <<s3raw, s3csv, table, s3db, request, outcome>>

NoRequest == [fn |-> "none"]

NoOutcome == [fn |-> "none", kind |-> "none", statusCode |-> 0, error |-> ""]

\* no invocation is under way: the functions are invoked one at a time
Idle == request = NoRequest

Init ==
    /\ s3raw \in RawFiles
    /\ s3csv = NoObject
    /\ table = <<>>
    /\ s3db = NoObject
    /\ request = NoRequest
    /\ outcome = NoOutcome

\* the state after Transform did r
TransformDone(body, fault, r) ==
    /\ s3csv' = IF r.put THEN Object(r.rows) ELSE s3csv
    /\ request' = [fn |-> "Transform", body |-> body, fault |-> fault]
    /\ outcome' = r.outcome
    /\ UNCHANGED <<s3raw, table, s3db>>

\* one invocation of Transform on the raw object
TransformInvoke ==
    \E body \in TransformBodies, fault \in S3Faults :
        /\ Idle
        /\ body = "absent" => fault = "none"
        /\ TransformDone(body, fault, TransformHandler(body, fault, s3raw))

\* the state after Load did r
LoadDone(hasParams, csv, fault, r) ==
    /\ table' = r.table
    /\ s3db' = IF r.upload THEN Object(r.table) ELSE s3db
    /\ request' = [fn |-> "Load", hasParams |-> hasParams, csv |-> csv,
                   fault |-> fault]
    /\ outcome' = r.outcome
    /\ UNCHANGED <<s3raw, s3csv>>

\* one invocation of Load on the CSV object `csv`
LoadInvoke(hasParams, csv, fault, failAt) ==
    LoadDone(hasParams, csv, fault,
             LoadHandler(hasParams, csv, fault, failAt, table))

\* the pipeline's Load: the transformed object into the empty table
LoadTransformed ==
    \E hasParams \in BOOLEAN, fault \in LoadFaults :
        \E failAt \in 1..(IF fault = "insert" THEN Len(s3csv.rows) ELSE 1) :
            /\ Idle
            /\ table = <<>>
            /\ ~hasParams => fault = "none"
            /\ LoadInvoke(hasParams, s3csv, fault, failAt)

\* the caller has what the invocation handed back
Return ==
    /\ ~Idle
    /\ request' = NoRequest
    /\ outcome' = NoOutcome
    /\ UNCHANGED <<s3raw, s3csv, table, s3db>>

(***************************************************************************)
(* Load and Query against one orders table: the batches, events and        *)
(* requests of the model.                                                  *)
(***************************************************************************)
\* the rows of the transformed files handed to Load: Units Sold "x" is not a
\* number
RawRowsForLoad ==
    {RawRow(region, oid, TxtJan1, units) :
        region \in {TxtAsia, TxtEurope},
        oid \in {<<"1">>, <<"2">>},
        units \in {<<"3">>, <<"7">>, <<"x">>}}

CsvRows == {TransformRow(row) : row \in RawRowsForLoad}

\* the transformed files of at most n rows
CsvFiles(n) == SeqsUpTo(CsvRows, n)

\* the values a request gives each filter key of the model
FilterValues(key) ==
    CASE key = "Region" -> {TxtAsia, TxtQuote, TxtInjection}
      [] key = "Country" -> {TxtCountry}
      [] key = "Discount" -> {TxtDiscount}

RequestKeys == {"Region", "Country", "Discount"}

\* the Filters mappings of the requests
QueryFilters ==
    UNION {{f \in [K -> UNION {FilterValues(k) : k \in RequestKeys}] :
                \A k \in K : f[k] \in FilterValues(k)} :
           K \in SUBSET RequestKeys}

\* the Group By lists of the requests: none, a column, a name that is no column
GroupBys ==
    {<<>>, <<ColumnWord("Region")>>, <<<<"D", "i", "s", "c", "o", "u", "n", "t">>>>}

\* the state after Query handed back `response`
QueryDone(hasParams, fault, filters, group_by, response) ==
    /\ request' = [fn |-> "Query", hasParams |-> hasParams, fault |-> fault,
                   Filters |-> filters, GroupBy |-> group_by]
    /\ outcome' = response
    /\ UNCHANGED <<s3raw, s3csv, table, s3db>>

\* one invocation of Query on the database object
QueryInvoke ==
    \E hasParams \in BOOLEAN, fault \in {"none", "download"},
       filters \in QueryFilters, group_by \in GroupBys :
        /\ Idle
        /\ ~hasParams => fault = "none"
        /\ (~hasParams \/ fault = "download") => (filters = <<>> /\ group_by = <<>>)
        /\ \E response \in QueryHandler(hasParams, s3db, fault, filters, group_by) :
              QueryDone(hasParams, fault, filters, group_by, response)

\* one invocation of Load on a transformed file of the model, one the table
\* has room for
LoadBatch ==
    \E hasParams \in BOOLEAN, fault \in LoadFaults,
       rows \in CsvFiles(MaxTable - Len(table)) :
        \E failAt \in 1..(IF fault = "insert" THEN Len(rows) ELSE 1) :
            /\ Idle
            /\ ~hasParams => fault = "none"
            /\ (~hasParams \/ fault = "download") => rows = <<>>
            /\ LoadInvoke(hasParams, Object(rows), fault, failAt)

InitStore ==
    /\ s3raw = <<>>
    /\ s3csv = NoObject
    /\ table = <<>>
    /\ s3db = NoObject
    /\ request = NoRequest
    /\ outcome = NoOutcome

NextStore == LoadBatch \/ QueryInvoke \/ Return

SpecStore == InitStore /\ [][NextStore]_vars

Next == TransformInvoke \/ LoadTransformed \/ Return

Spec == Init /\ [][Next]_vars

(***************************************************************************)
(* The claims.                                                             *)
(***************************************************************************)
\* the indices of the rows that are the first with their Order ID cell
FirstOccurrences(rows) ==
    {i \in 1..Len(rows) : \A j \in 1..(i - 1) : rows[j].OrderID # rows[i].OrderID}

\* the k-th smallest element of a set of numbers
KthOf(S, k) == CHOOSE i \in S : Cardinality({j \in S : j < i}) = k - 1

\* C1: the rows one Transform invocation emits have pairwise distinct Order ID
\* values; they are the rows derived from the first input row of each Order
\* ID, in input order; a later row with a seen Order ID yields no output and
\* no error: the invocation fails on a row exactly when a first row of an
\* Order ID does not parse.
C1_FirstSeenWins ==
    /\ s3csv.exists =>
        /\ Len(s3csv.rows) = Cardinality(FirstOccurrences(s3raw))
        /\ \A k \in 1..Len(s3csv.rows) :
              s3csv.rows[k] = TransformRow(s3raw[KthOf(FirstOccurrences(s3raw), k)])
        /\ \A i, j \in 1..Len(s3csv.rows) :
              i # j => s3csv.rows[i].OrderID # s3csv.rows[j].OrderID
    /\ (request.fn = "Transform" /\ request.body = "dict" /\ request.fault = "none") =>
        (outcome.kind = "raised"
            <=> \E i \in FirstOccurrences(s3raw) : ~RowParses(s3raw[i]))

\* a transform that succeeded on a file whose later row repeats an Order ID
\* with other values, values that do not parse
C1_Witness ==
    /\ s3csv.exists
    /\ Len(s3csv.rows) >= 2
    /\ \E i, j \in 1..Len(s3raw) :
          /\ i < j
          /\ s3raw[i].OrderID = s3raw[j].OrderID
          /\ s3raw[i] # s3raw[j]
          /\ ~RowParses(s3raw[j])

\* C2: for every file R that transforms, transform(R concatenated with R) is
\* the output of transform(R): the second copy adds no row.
C2_DedupIdempotent ==
    s3csv.exists => transform(s3raw \o s3raw) = [ok |-> TRUE, rows |-> s3csv.rows]

\* a transform that emitted two rows or more
C2_Witness ==
    /\ s3csv.exists
    /\ Len(s3csv.rows) >= 2
    /\ Len(s3raw) > Len(s3csv.rows)

\* the filter keys of the allow-list
AllowList == {"Region", "ItemType", "SalesChannel", "OrderPriority", "Country"}

\* C3: a query whose Filters hold a key outside the allow-list ends in a
\* failure response, never in a success.
C3_UnknownFilterKeyRejected ==
    (request.fn = "Query" /\ \E k \in DOMAIN request.Filters : k \notin AllowList)
        => outcome.statusCode # 200

\* the rows whose columns equal the filter values as literal texts
LiteralSelected(rows, filters) ==
    SelectSeq(rows, LAMBDA row : MatchesLiterally(filters, row))

\* C4: whatever characters a filter value holds, the query that runs answers
\* with the aggregates of the records whose column equals the value as a
\* literal text.
C4_FilterValueIsLiteral ==
    (/\ request.fn = "Query"
     /\ request.hasParams
     /\ request.fault = "none"
     /\ s3db.exists
     /\ \A i \in 1..Len(request.GroupBy) : IsColumnWord(request.GroupBy[i]))
        => outcome \in QueryAnswers(agg_result(
               LiteralSelected(s3db.rows, request.Filters), request.GroupBy))

\* the rows of `orders` the batch of a Load request makes, if its rows coerce
BatchRows(size, rows) == [k \in 1..Len(rows) |-> StoredRow(rows[k], size + k)]

\* C5: a Load invocation leaves in the orders table every record of its batch
\* or none, and none when it answers with a failure.
C5_AppendAllOrNothing ==
    [][request'.fn = "Load" =>
        /\ \/ table' = table
           \/ /\ \A i \in 1..Len(request'.csv.rows) : RowCoerces(request'.csv.rows[i])
              /\ table' = table \o BatchRows(Len(table), request'.csv.rows)
        /\ outcome'.statusCode # 200 => table' = table]_vars

\* C6: every invocation ends by returning a response with a success or
\* failure status, a failure with an error message; no exception escapes.
C6_EveryInvocationReturnsStatus ==
    ~Idle =>
        /\ outcome.kind = "returned"
        /\ outcome.statusCode \in {200, 500}
        /\ outcome.statusCode = 500 => outcome.error # ""

\* the rows the WHERE clause the handler builds selects
CodeSelected(rows, filters) ==
    Selected(rows, where_clause(filters), WhereTokens(where_clause(filters)).toks)

\* the sets of statistics a response holds
ResponseAggregates(response) ==
    IF response.aggregations = EmptyDict THEN {} ELSE {response.aggregations}

\* C7: the aggregates a query returns hold one set of the nine statistics for
\* every group of the rows it selected, and one set over all of them when
\* Group By is empty.
C7_OneAggregateRowPerGroup ==
    (request.fn = "Query" /\ outcome.statusCode = 200) =>
        ResponseAggregates(outcome)
            = agg_result(CodeSelected(s3db.rows, request.Filters), request.GroupBy)

\* C8: a query with empty Filters and empty Group By returns all records of
\* the store and the aggregates over all of them.
C8_NoFilterIdentity ==
    (/\ request.fn = "Query"
     /\ outcome.statusCode = 200
     /\ request.Filters = <<>>
     /\ request.GroupBy = <<>>) =>
        /\ \A i \in 1..Len(s3db.rows) :
              /\ "records" \in DOMAIN outcome
              /\ i \in DOMAIN outcome.records
              /\ outcome.records[i] = s3db.rows[i]
        /\ outcome.aggregations = AggregateRow(s3db.rows)

IsPrefix(s, t) == Len(s) <= Len(t) /\ SubSeq(t, 1, Len(s)) = s

\* C9: the store is append-only: every step keeps every row of the orders
\* table, and of the database object once put, in place and unchanged; a
\* Query changes neither.
C9_AppendOnly ==
    [][/\ IsPrefix(table, table')
       /\ s3db.exists => (s3db'.exists /\ IsPrefix(s3db.rows, s3db'.rows))
       /\ request'.fn = "Query" => (table' = table /\ s3db' = s3db)]_vars

\* a Load that appended a batch to a table that held rows
C9_Witness ==
    /\ request.fn = "Load"
    /\ outcome.statusCode = 200
    /\ Len(request.csv.rows) >= 1
    /\ Len(table) > Len(request.csv.rows)
    /\ s3db = Object(table)

\* C10: after one raw file went through Transform and one Load into the
\* empty table, no two rows of the table have the same integer OrderID.
C10_StoredOrderIDsDistinct ==
    (request.fn = "Load" /\ outcome.statusCode = 200) =>
        \A i, j \in 1..Len(table) : i # j => table[i].OrderID # table[j].OrderID
====
